---- MODULE Spec2Model ----
(***************************************************************************)
(* ngicks/pkgmgr, src/main.go: the run of main() over the enumerated       *)
(* targets in the four modes ver, checklatest, install and update.         *)
(*                                                                         *)
(* Strings are sequences of one-character strings, so that                 *)
(* strings.TrimSpace and cmp.Or are computed and not assumed.  One step of *)
(* the model is one call of commandExecutor.Exec together with the code of *)
(* main() that follows it up to the next call.                             *)
(***************************************************************************)
EXTENDS Integers, Sequences, FiniteSets, TLC

\* ------------------------------------------------------------------ bounds
\* number of target names the configuration directory may hold
MaxTargets == 2
\* most spaces a child prints before, and after, the version text
MaxPad == 1
\* most tokens of an argument vector the substitution is applied to
MaxArgs == 2

\* ------------------------------------------------------------------ strings
Space == " "
NameChars == <<"a", "b", "c", "d">>

\* the version texts of the model, the empty text among them
Versions == {<<>>, <<"1">>, <<"2">>}

Pad(n) == [k \in 1..n |-> Space]

\* what a child may have written to stdout when Exec returns
Outputs == {Pad(l) \o v \o Pad(r) : v \in Versions, l \in 0..MaxPad, r \in 0..MaxPad}

IsSpace(c) == c = Space

RECURSIVE TrimLeft(_)
TrimLeft(s) ==
    IF s = <<>> THEN s
    ELSE IF IsSpace(Head(s)) THEN TrimLeft(Tail(s)) ELSE s

RECURSIVE TrimRight(_)
TrimRight(s) ==
    IF s = <<>> THEN s
    ELSE IF IsSpace(s[Len(s)]) THEN TrimRight(SubSeq(s, 1, Len(s) - 1)) ELSE s

\* cutting the leading white space only
TrimSpaceLeftOnly(s) == TrimLeft(s)

\* strings.TrimSpace
TrimSpace(s) == TrimRight(TrimLeft(s))

\* cmp.Or on two strings: the first that is not the zero value
CmpOr(a, b) == IF a # <<>> THEN a ELSE b

\* a Go map read: the zero value for an absent key
MapGet(m, k) == IF k \in DOMAIN m THEN m[k] ELSE <<>>

\* a Go map write m[k] = v
MapPut(m, k, v) == [x \in DOMAIN m \cup {k} |-> IF x = k THEN v ELSE m[x]]

EmptyMap == [x \in {} |-> <<>>]

\* ------------------------------------------------------------------ commands
commandVer == "ver"
commandChecklatest == "checklatest"
commandInstall == "install"
commandUpdate == "update"
cmds == {commandVer, commandChecklatest, commandInstall, commandUpdate}

\* ------------------------------------------------------------------ inputs
TargetNames == {<<NameChars[k]>> : k \in 1..MaxTargets}

NameIndex(name) == CHOOSE k \in 1..Len(NameChars) : NameChars[k] = name[1]

\* cmp.Compare(i.Name, j.Name) < 0 on the one-letter names of the model
NameLess(x, y) == NameIndex(x) < NameIndex(y)

IsSortedByName(s) == \A p, q \in 1..Len(s) : p < q => NameLess(s[p], s[q])

\* the lists the enumeration can leave in sets: sorted by name, one entry a name
Enumerations ==
    {s \in UNION {[1..k -> TargetNames] : k \in 0..MaxTargets} : IsSortedByName(s)}

\* keys of .pin.json: target names, and a name with a leading space
PinKeys == TargetNames \cup {<<Space, NameChars[1]>>}

\* values of .pin.json: a version text, bare or with a space before or after it
PinStrings ==
    Versions \cup {<<Space>> \o v : v \in Versions} \cup {v \o <<Space>> : v \in Versions}

\* .pin.json as decoded: no file or an empty object, or an object of one entry
PinFiles == {EmptyMap} \cup {[x \in {k} |-> v] : k \in PinKeys, v \in PinStrings}

VARIABLES
    cmd,              \* the operation mode, args of main
    f,                \* the force flag *f
    pinnedVersions,   \* .pin.json as loaded
    sets,             \* the enumerated targets (their names)
    pc,               \* "load", "run", "plan", "exec", "done", "fatal"
    i,                \* index of the executor the loop is at
    step,             \* the Exec call the iteration is about to make
    out,              \* install mode: what checklatest printed, until install is called
    ver,              \* install mode: the local ver of the iteration
    currentVersions,
    latestVersions,
    updates,          \* the queue of targetedExecutor
    calls,            \* every Exec call made so far, in order
    cancelled,        \* ctx.Done() is closed
    cancelAt,         \* index in calls of the call the signal arrived at, 0 if none
    outputs,          \* ver, checklatest modes: what each target's child wrote, less its padding
    executor,         \* Exec: the receiver e (dir, commandSet)
    disk,             \* Exec: the paths os.Stat succeeds on
    frame,            \* Exec: the arguments and locals of the call (kind, ver, args, ...)
    dirents,          \* enumeration: what Readdir returned, in its order
    found,            \* enumeration: the local sets ([]namedCommandSet)
    enumPc            \* enumeration: "read", "sort", "compact", "done"

execVars == <<executor, disk, frame>>

enumVars == <<dirents, found, enumPc>>

mainVars == <<cmd, f, pinnedVersions, sets, pc, i, step, out, ver, currentVersions,
              latestVersions, updates, calls, cancelled, cancelAt, outputs>>

vars == <<mainVars, execVars, enumVars>>

\* no Exec call is being looked into
ExecIdle ==
    /\ executor = [dir |-> <<>>, Name |-> <<>>, Set |-> <<>>]
    /\ disk = {}
    /\ frame = [pc |-> "idle"]

\* the enumeration is not being looked into
EnumIdle ==
    /\ dirents = <<>>
    /\ found = <<>>
    /\ enumPc = "idle"

Init ==
    /\ cmd \in cmds
    /\ f \in BOOLEAN
    /\ pinnedVersions \in PinFiles
    /\ sets \in Enumerations
    /\ pc = "load"
    /\ i = 1
    /\ step = commandVer
    /\ out = <<>>
    /\ ver = <<>>
    /\ currentVersions = EmptyMap
    /\ latestVersions = EmptyMap
    /\ updates = <<>>
    /\ calls = <<>>
    /\ cancelled = FALSE
    /\ cancelAt = 0
    /\ outputs = EmptyMap
    /\ ExecIdle
    /\ EnumIdle

\* main is not running: the state of the specifications that look into one
\* call of Exec, into the substitution or into the enumeration
MainIdle ==
    /\ cmd = commandVer
    /\ f = FALSE
    /\ pinnedVersions = EmptyMap
    /\ sets = <<>>
    /\ pc = "idle"
    /\ i = 1
    /\ step = commandVer
    /\ out = <<>>
    /\ ver = <<>>
    /\ currentVersions = EmptyMap
    /\ latestVersions = EmptyMap
    /\ updates = <<>>
    /\ calls = <<>>
    /\ cancelled = FALSE
    /\ cancelAt = 0
    /\ outputs = EmptyMap

\* ------------------------------------------------------------------ Exec
\* What one call of commandExecutor.Exec can return.  With the context already
\* done the call fails without a child (cmd.Run returns ctx.Err(), or the
\* command was not found).  Otherwise: the command is not found; or the child
\* runs and exits, with or without an error, having written out; or the
\* signal arrives while the child runs (sig), the child is killed and Run
\* returns an error with what was written so far.  The verbose flag only
\* mirrors the child's output to stdout and is left out.
ExecResults ==
    IF cancelled
    THEN {[out |-> <<>>, err |-> TRUE, sig |-> FALSE]}
    ELSE {[out |-> <<>>, err |-> TRUE, sig |-> FALSE]}
         \cup {[out |-> o, err |-> e, sig |-> FALSE] : o \in Outputs, e \in BOOLEAN}
         \cup {[out |-> o, err |-> TRUE, sig |-> TRUE] : o \in Outputs}

\* runtime.GOOS and runtime.GOARCH of the build, and os.Environ(): what the
\* process inherited, a VER of its own included
GOOS == <<"l", "i", "n", "u", "x">>
GOARCH == <<"a", "m", "d", "6", "4">>
Environ == <<[key |-> "HOME", val |-> <<"/">>], [key |-> "VER", val |-> <<"0">>]>>

\* VER appended whatever ver is
ExecEnvAlwaysVer(v) ==
    Environ \o <<[key |-> "OS", val |-> GOOS], [key |-> "ARCH", val |-> GOARCH],
                 [key |-> "VER", val |-> v]>>

\* cmd.Env of the child of Exec(ctx, kind, v, _)
ExecEnv(v) ==
    Environ \o <<[key |-> "OS", val |-> GOOS], [key |-> "ARCH", val |-> GOARCH]>>
            \o (IF v # <<>> THEN <<[key |-> "VER", val |-> v]>> ELSE <<>>)

\* the text a child wrote between the white space before and after it
Written(o) ==
    CHOOSE v \in Versions : \E l, r \in 0..MaxPad : o = Pad(l) \o v \o Pad(r)

\* the call executor.Exec(ctx, kind, v, _) of the executor of name, returning r;
\* env is what cmd.Env is set to once the command is resolved
Call(name, kind, v, r) ==
    /\ calls' = Append(calls, [name |-> name, kind |-> kind, ver |-> v,
                               env |-> ExecEnv(v),
                               err |-> r.err, ctxDone |-> cancelled])
    /\ cancelled' = (cancelled \/ r.sig)
    /\ cancelAt' = IF r.sig THEN Len(calls) + 1 ELSE cancelAt

\* ------------------------------------------------------------------ main
\* the loop over pinnedVersions that panics on a key or value with space
\* prefix or suffix
PinsValidKeysOnly ==
    \A k \in DOMAIN pinnedVersions : k = TrimSpace(k)

PinsValid ==
    \A k \in DOMAIN pinnedVersions :
        k = TrimSpace(k) /\ pinnedVersions[k] = TrimSpace(pinnedVersions[k])

\* the first Exec of an iteration of the mode's loop
LoopFirstStep == IF cmd = commandChecklatest THEN commandChecklatest ELSE commandVer

\* where main goes when the loop over iter() of the mode is over
AfterLoop == IF cmd = commandUpdate THEN "plan" ELSE "done"

\* the loop stopping one executor early
NextTargetOffByOne(k) ==
    IF k < Len(sets)
    THEN pc' = "run" /\ i' = k /\ step' = LoopFirstStep
    ELSE pc' = AfterLoop /\ i' = 1 /\ step' = LoopFirstStep

\* the range-over-iter loop moves to executor k, or ends
NextTarget(k) ==
    IF k <= Len(sets)
    THEN pc' = "run" /\ i' = k /\ step' = LoopFirstStep
    ELSE pc' = AfterLoop /\ i' = 1 /\ step' = LoopFirstStep

\* panic(err)
Panic == pc' = "fatal" /\ UNCHANGED <<i, step>>

\* install mode: `if err == nil { ...already installed...; continue }`
InstallSkipsNever(err) == FALSE

InstallSkips(err) == ~err

\* install mode: ver := strings.TrimSpace(out); if err != nil { ver = "" }
FetchedVersion(r) == IF r.err THEN <<>> ELSE TrimSpace(r.out)

\* install mode: the version argument of the install call
InstallVersionNoPin(name, fetched) == fetched

InstallVersion(name, fetched) == CmpOr(MapGet(pinnedVersions, name), fetched)

\* install, ver, checklatest modes: `if err != nil { if !*f { panic(err) } ... }`
InstallFatal(err) == err /\ ~f

VerFatalNoForce(err) == err

VerFatal(err) == err /\ ~f

ChecklatestFatal(err) == err /\ ~f

\* update mode, version gathering: `if err != nil { panic(err) }`
GatherFatalUnlessForce(err) == err /\ ~f

GatherFatal(err) == err

\* update mode, execution: `if err != nil { panic(...) }`
UpdateFatalUnlessForce(err) == err /\ ~f

UpdateFatal(err) == err

\* update mode: tgt := cmp.Or(pinnedVersions[name], latestVersions[name])
EffectiveTargetLatestOnly(name) == MapGet(latestVersions, name)

EffectiveTarget(name) ==
    CmpOr(MapGet(pinnedVersions, name), MapGet(latestVersions, name))

\* update mode: `if currentVersions[name] == tgt { continue }` negated
NeedsUpdateAlways(name) == TRUE

NeedsUpdate(name) == MapGet(currentVersions, name) # EffectiveTarget(name)

\* update mode: the planning loop over iter(), from executor k on
RECURSIVE PlanFromReversed(_)
PlanFromReversed(k) ==
    IF k > Len(sets) THEN <<>>
    ELSE PlanFromReversed(k + 1)
         \o (IF NeedsUpdate(sets[k])
             THEN <<[tgt |-> EffectiveTarget(sets[k]), name |-> sets[k]]>>
             ELSE <<>>)

RECURSIVE PlanFrom(_)
PlanFrom(k) ==
    IF k > Len(sets) THEN <<>>
    ELSE (IF NeedsUpdate(sets[k])
          THEN <<[tgt |-> EffectiveTarget(sets[k]), name |-> sets[k]]>>
          ELSE <<>>) \o PlanFrom(k + 1)

\* ------------------------------------------------------------------ actions
\* main up to the switch: pinned versions are validated, targets enumerated
LoadPinned ==
    /\ pc = "load"
    /\ IF PinsValid THEN NextTarget(1) ELSE Panic
    /\ UNCHANGED <<execVars, enumVars, outputs, cmd, f, pinnedVersions, sets,
                 out, ver, currentVersions,
                   latestVersions, updates, calls, cancelled, cancelAt>>

\* SIGINT or SIGTERM arrives while main is between two Exec calls
Signal ==
    /\ pc \in {"load", "run", "plan", "exec"}
    /\ ~cancelled
    /\ cancelled' = TRUE
    /\ cancelAt' = Len(calls) + 1
    /\ UNCHANGED <<execVars, enumVars, outputs, cmd, f, pinnedVersions, sets,
                 pc, i, step, out, ver,
                   currentVersions, latestVersions, updates, calls>>

InstallVer ==
    /\ pc = "run" /\ cmd = commandInstall /\ step = commandVer
    /\ \E r \in ExecResults :
        /\ Call(sets[i], commandVer, <<>>, r)
        /\ IF InstallSkips(r.err)
           THEN NextTarget(i + 1)
           ELSE pc' = pc /\ i' = i /\ step' = commandChecklatest
    /\ out' = <<>> /\ ver' = <<>>
    /\ UNCHANGED <<execVars, enumVars, outputs, cmd, f, pinnedVersions, sets,
                 currentVersions,
                   latestVersions, updates>>

InstallChecklatest ==
    /\ pc = "run" /\ cmd = commandInstall /\ step = commandChecklatest
    /\ \E r \in ExecResults :
        /\ Call(sets[i], commandChecklatest, <<>>, r)
        /\ out' = r.out
        /\ ver' = FetchedVersion(r)
    /\ step' = commandInstall
    /\ UNCHANGED <<execVars, enumVars, outputs, cmd, f, pinnedVersions, sets,
                 pc, i, currentVersions,
                   latestVersions, updates>>

InstallInstall ==
    /\ pc = "run" /\ cmd = commandInstall /\ step = commandInstall
    /\ \E r \in ExecResults :
        /\ Call(sets[i], commandInstall, InstallVersion(sets[i], ver), r)
        /\ IF InstallFatal(r.err) THEN Panic ELSE NextTarget(i + 1)
    /\ out' = <<>>
    /\ UNCHANGED <<execVars, enumVars, outputs, cmd, f, pinnedVersions, sets,
                 ver, currentVersions,
                   latestVersions, updates>>

VerLoop ==
    /\ pc = "run" /\ cmd = commandVer
    /\ \E r \in ExecResults :
        /\ Call(sets[i], commandVer, <<>>, r)
        /\ IF VerFatal(r.err)
           THEN Panic /\ UNCHANGED <<currentVersions, outputs>>
           ELSE /\ currentVersions' = MapPut(currentVersions, sets[i], TrimSpace(r.out))
                /\ outputs' = MapPut(outputs, sets[i], Written(r.out))
                /\ NextTarget(i + 1)
    /\ UNCHANGED <<execVars, enumVars, cmd, f, pinnedVersions, sets,
                 out, ver, latestVersions, updates>>

\* the checklatest case calling the ver operation
ChecklatestLoopCallsVer ==
    /\ pc = "run" /\ cmd = commandChecklatest
    /\ \E r \in ExecResults :
        /\ Call(sets[i], commandVer, <<>>, r)
        /\ IF ChecklatestFatal(r.err)
           THEN Panic /\ UNCHANGED <<latestVersions, outputs>>
           ELSE /\ latestVersions' = MapPut(latestVersions, sets[i], TrimSpace(r.out))
                /\ outputs' = MapPut(outputs, sets[i], Written(r.out))
                /\ NextTarget(i + 1)
    /\ UNCHANGED <<execVars, enumVars, cmd, f, pinnedVersions, sets,
                 out, ver, currentVersions, updates>>

ChecklatestLoop ==
    /\ pc = "run" /\ cmd = commandChecklatest
    /\ \E r \in ExecResults :
        /\ Call(sets[i], commandChecklatest, <<>>, r)
        /\ IF ChecklatestFatal(r.err)
           THEN Panic /\ UNCHANGED <<latestVersions, outputs>>
           ELSE /\ latestVersions' = MapPut(latestVersions, sets[i], TrimSpace(r.out))
                /\ outputs' = MapPut(outputs, sets[i], Written(r.out))
                /\ NextTarget(i + 1)
    /\ UNCHANGED <<execVars, enumVars, cmd, f, pinnedVersions, sets,
                 out, ver, currentVersions, updates>>

UpdateVer ==
    /\ pc = "run" /\ cmd = commandUpdate /\ step = commandVer
    /\ \E r \in ExecResults :
        /\ Call(sets[i], commandVer, <<>>, r)
        /\ IF GatherFatal(r.err)
           THEN Panic /\ UNCHANGED currentVersions
           ELSE /\ currentVersions' = MapPut(currentVersions, sets[i], TrimSpace(r.out))
                /\ pc' = pc /\ i' = i /\ step' = commandChecklatest
    /\ UNCHANGED <<execVars, enumVars, outputs, cmd, f, pinnedVersions, sets,
                 out, ver, latestVersions, updates>>

UpdateChecklatest ==
    /\ pc = "run" /\ cmd = commandUpdate /\ step = commandChecklatest
    /\ \E r \in ExecResults :
        /\ Call(sets[i], commandChecklatest, <<>>, r)
        /\ IF GatherFatal(r.err)
           THEN Panic /\ UNCHANGED latestVersions
           ELSE /\ latestVersions' = MapPut(latestVersions, sets[i], TrimSpace(r.out))
                /\ NextTarget(i + 1)
    /\ UNCHANGED <<execVars, enumVars, outputs, cmd, f, pinnedVersions, sets,
                 out, ver, currentVersions, updates>>

\* the planning loop: every target that needs an update is queued
UpdatePlan ==
    /\ pc = "plan"
    /\ updates' = PlanFrom(1)
    /\ pc' = IF updates' = <<>> THEN "done" ELSE "exec"
    /\ i' = 1
    /\ step' = commandUpdate
    /\ UNCHANGED <<execVars, enumVars, outputs, cmd, f, pinnedVersions, sets,
                 out, ver, currentVersions,
                   latestVersions, calls, cancelled, cancelAt>>

\* one iteration of the loop over updates
UpdateExec ==
    /\ pc = "exec"
    /\ \E r \in ExecResults :
        /\ Call(updates[i].name, commandUpdate, updates[i].tgt, r)
        /\ IF UpdateFatal(r.err)
           THEN Panic
           ELSE IF i + 1 <= Len(updates)
                THEN pc' = pc /\ i' = i + 1 /\ step' = step
                ELSE pc' = "done" /\ i' = i /\ step' = step
    /\ UNCHANGED <<execVars, enumVars, outputs, cmd, f, pinnedVersions, sets,
                 out, ver, currentVersions,
                   latestVersions, updates>>

Next ==
    \/ LoadPinned
    \/ Signal
    \/ InstallVer
    \/ InstallChecklatest
    \/ InstallInstall
    \/ VerLoop
    \/ ChecklatestLoop
    \/ UpdateVer
    \/ UpdateChecklatest
    \/ UpdatePlan
    \/ UpdateExec

Spec == Init /\ [][Next]_vars

\* ------------------------------------------------------------------ substitution
\* the placeholder literals of the dictionary Exec builds
PhVer == <<"$", "{", "V", "E", "R", "}">>
PhOs == <<"$", "{", "O", "S", "}">>
PhArch == <<"$", "{", "A", "R", "C", "H", "}">>

\* dictReplacer{"${VER}": ver, "${OS}": runtime.GOOS, "${ARCH}": runtime.GOARCH}
Dict(v) ==
    [k \in {PhVer, PhOs, PhArch} |->
        IF k = PhVer THEN v ELSE IF k = PhOs THEN GOOS ELSE GOARCH]

HasPrefix(s, k) == Len(k) <= Len(s) /\ SubSeq(s, 1, Len(k)) = k

\* the placeholders of dict that s starts with (at most one: no placeholder
\* is the prefix of another)
Hits(dict, s) == {k \in DOMAIN dict : HasPrefix(s, k)}

\* the leftmost occurrence only is replaced
RECURSIVE ReplaceFirst(_, _)
ReplaceFirst(dict, s) ==
    IF s = <<>> THEN <<>>
    ELSE IF Hits(dict, s) = {}
         THEN <<Head(s)>> \o ReplaceFirst(dict, Tail(s))
         ELSE LET k == CHOOSE k \in Hits(dict, s) : TRUE
              IN dict[k] \o SubSeq(s, Len(k) + 1, Len(s))

\* every occurrence of a placeholder literal in the token s is replaced by
\* its value, the token being read once from left to right
RECURSIVE ReplaceAll(_, _)
ReplaceAll(dict, s) ==
    IF s = <<>> THEN <<>>
    ELSE IF Hits(dict, s) = {}
         THEN <<Head(s)>> \o ReplaceAll(dict, Tail(s))
         ELSE LET k == CHOOSE k \in Hits(dict, s) : TRUE
              IN dict[k] \o ReplaceAll(dict, SubSeq(s, Len(k) + 1, Len(s)))

DictMapFirstOnly(dict, args) == [n \in 1..Len(args) |-> ReplaceFirst(dict, args[n])]

\* dictReplacer.Map over the tokens of args
DictMap(dict, args) == [n \in 1..Len(args) |-> ReplaceAll(dict, args[n])]

\* the tokens of the model: a head, a placeholder or nothing, a tail
TokenHeads == {<<>>, <<"x">>, <<"$">>, <<"$", "{", "O">>}
TokenMids == {<<>>, PhVer, PhOs}
TokenTails == {<<>>, <<"S", "}">>, <<"{", "O", "S", "}">>, PhArch}
Tokens == {h \o m \o t : h \in TokenHeads, m \in TokenMids, t \in TokenTails}

\* the argument vectors of the model
ArgVectors == UNION {[1..n -> Tokens] : n \in 1..MaxArgs}

\* the version strings passed to Exec
VerArgs == {<<>>, <<"1">>, <<"$">>}

\* the substitution applied to a vector, and then to its result
SubstInit ==
    /\ \E v \in VerArgs, a \in ArgVectors :
          frame = [pc |-> "subst", ver |-> v, template |-> a, once |-> <<>>, args |-> a]
    /\ executor = [dir |-> <<>>, Name |-> <<>>, Set |-> <<>>]
    /\ disk = {}
    /\ EnumIdle
    /\ MainIdle

SubstOnce ==
    /\ frame.pc = "subst"
    /\ frame' = [frame EXCEPT !.pc = "once",
                              !.once = DictMap(Dict(frame.ver), frame.args),
                              !.args = DictMap(Dict(frame.ver), frame.args)]
    /\ UNCHANGED <<mainVars, enumVars, executor, disk>>

SubstAgain ==
    /\ frame.pc = "once"
    /\ frame' = [frame EXCEPT !.pc = "twice",
                              !.args = DictMap(Dict(frame.ver), frame.args)]
    /\ UNCHANGED <<mainVars, enumVars, executor, disk>>

SubstNext == SubstOnce \/ SubstAgain

SpecSubst == SubstInit /\ [][SubstNext]_vars

\* ------------------------------------------------------------------ one call of Exec
\* commandSet.Select
Select(set, kind) ==
    CASE kind = commandVer -> set.Ver
      [] kind = commandChecklatest -> set.CheckLatest
      [] kind = commandInstall -> set.Install
      [] kind = commandUpdate -> set.Update

\* the shell script tried before the file without extension
SuffixesShFirst == <<".sh", "", ".exe", ".bat", ".ps1">>

\* the suffixes the loop of script discovery ranges over
Suffixes == <<"", ".sh", ".exe", ".bat", ".ps1">>

\* filepath.Join(dir, name, string(kind)+suf): the elements of the path
ScriptPath(dir, name, kind, suf) == <<dir, name, <<kind, suf>>>>

\* the -dir of the model
ConfigDir == <<"c">>

\* the templates of the model: none, a command with a version argument, a
\* command that is the version
Templates == {<<>>, <<<<"t">>, PhVer>>, <<PhVer>>}

CommandSets ==
    [Ver : Templates, CheckLatest : Templates, Install : Templates, Update : Templates]

\* the scripts of kind that may lie in the directory of the target name
Candidates(name, kind) ==
    {ScriptPath(ConfigDir, name, kind, Suffixes[n]) : n \in 1..Len(Suffixes)}

\* cmd.Run: the child is started and exits, with or without an error
RunResults ==
    {[out |-> <<"1">>, err |-> "nil"], [out |-> <<>>, err |-> "exit status 1"]}

\* a call e.Exec(ctx, kind, v, _) on some executor over some directory content
ExecInit ==
    /\ \E set \in CommandSets, name \in TargetNames :
          executor = [dir |-> ConfigDir, Name |-> name, Set |-> set]
    /\ \E kind \in cmds, v \in VerArgs :
          frame = [pc |-> "select", kind |-> kind, ver |-> v, args |-> <<>>,
                   stats |-> <<>>, child |-> <<>>, ret |-> <<>>]
    /\ disk \in SUBSET Candidates(executor.Name, frame.kind)
    /\ EnumIdle
    /\ MainIdle

\* scripts are looked for whatever the template is
UsesTemplateNever(args) == FALSE

\* if len(args) > 0
UsesTemplate(args) == Len(args) > 0

\* args := e.commandSet.Set.Select(kind), and the substitution if there is a
\* template
ExecSelect ==
    /\ frame.pc = "select"
    /\ LET args == Select(executor.Set, frame.kind)
       IN IF UsesTemplate(args)
          THEN frame' = [frame EXCEPT !.args = DictMap(Dict(frame.ver), args),
                                      !.pc = "command"]
          ELSE frame' = [frame EXCEPT !.args = <<>>, !.pc = "probe"]
    /\ UNCHANGED <<mainVars, enumVars, executor, disk>>

\* one round of the loop over the suffixes: os.Stat(name), and the break or
\* the next suffix; after the last one `return "", command not found`
ExecStat ==
    /\ frame.pc = "probe"
    /\ LET n == Len(frame.stats) + 1
           name == ScriptPath(executor.dir, executor.Name, frame.kind, Suffixes[n])
       IN IF name \in disk
          THEN frame' = [frame EXCEPT !.stats = Append(@, name),
                                      !.args = Append(@, name),
                                      !.pc = "command"]
          ELSE IF n < Len(Suffixes)
          THEN frame' = [frame EXCEPT !.stats = Append(@, name)]
          ELSE frame' = [frame EXCEPT !.stats = Append(@, name),
                                      !.ret = <<[out |-> <<>>, err |-> "command not found"]>>,
                                      !.pc = "returned"]
    /\ UNCHANGED <<mainVars, enumVars, executor, disk>>

\* cmd := exec.CommandContext(ctx, args[0]), cmd.Args, cmd.Env, cmd.Run()
ExecRun ==
    /\ frame.pc = "command"
    /\ \E r \in RunResults :
          frame' = [frame EXCEPT
                      !.child = <<[path |-> frame.args[1],
                                   argv |-> IF Len(frame.args) > 1 THEN frame.args
                                            ELSE <<frame.args[1]>>,
                                   env |-> ExecEnv(frame.ver)]>>,
                      !.ret = <<r>>,
                      !.pc = "returned"]
    /\ UNCHANGED <<mainVars, enumVars, executor, disk>>

ExecNext == ExecSelect \/ ExecStat \/ ExecRun

SpecExec == ExecInit /\ [][ExecNext]_vars

\* ------------------------------------------------------------------ enumeration
DotJson == <<".", "j", "s", "o", "n">>

pinnedVersionsFileName == <<".", "p", "i", "n">> \o DotJson

\* strings.HasSuffix, strings.TrimSuffix
HasSuffix(s, suf) ==
    Len(suf) <= Len(s) /\ SubSeq(s, Len(s) - Len(suf) + 1, Len(s)) = suf

TrimSuffix(s, suf) == IF HasSuffix(s, suf) THEN SubSeq(s, 1, Len(s) - Len(suf)) ELSE s

\* the zero commandSet, and the commandSet decoded from a file that defines ver
ZeroSet == [Ver |-> <<>>, CheckLatest |-> <<>>, Install |-> <<>>, Update |-> <<>>]

VerOnlySet == [ZeroSet EXCEPT !.Ver = <<<<"t">>>>]

\* reflect.ValueOf(set).IsZero()
IsZero(set) == set = ZeroSet

\* the names the targets of the configuration directory are drawn from
EnumNames == {<<NameChars[1]>>, <<NameChars[2]>>}

\* what the configuration directory may hold: for a name n the file n.json
\* (decoding to the zero commandSet or not) and the directory n, the file
\* of the pinned versions, and a regular file that is no .json
PossibleEntries ==
    {[name |-> n \o DotJson, dir |-> FALSE, set |-> c] :
        n \in EnumNames, c \in {ZeroSet, VerOnlySet}}
    \cup {[name |-> n, dir |-> TRUE, set |-> ZeroSet] : n \in EnumNames}
    \cup {[name |-> pinnedVersionsFileName, dir |-> FALSE, set |-> ZeroSet],
          [name |-> <<"R">>, dir |-> FALSE, set |-> ZeroSet]}

\* a directory holds one entry a name
DirContents ==
    {c \in SUBSET PossibleEntries : \A x, y \in c : x.name = y.name => x = y}

\* Readdir returns the entries in any order
Listings(c) ==
    {l \in [1..Cardinality(c) -> c] : \A p, q \in 1..Cardinality(c) : l[p] = l[q] => p = q}

EnumInit ==
    /\ \E c \in DirContents : dirents \in Listings(c)
    /\ found = <<>>
    /\ enumPc = "read"
    /\ ExecIdle
    /\ MainIdle

\* the predicate of xiter.Filter2
Filtered(fi) ==
    \/ ~fi.dir /\ HasSuffix(fi.name, DotJson) /\ fi.name # pinnedVersionsFileName
    \/ fi.dir

\* the mapper of xiter.Map2
Mapped(fi) ==
    IF ~fi.dir /\ HasSuffix(fi.name, DotJson)
    THEN [Name |-> TrimSuffix(fi.name, DotJson), Set |-> fi.set]
    ELSE [Name |-> fi.name, Set |-> ZeroSet]

\* hiter.TryAppendSeq(sets[:0], Map2(..., Filter2(..., Readdir(dir))))
RECURSIVE AppendSeq(_, _)
AppendSeq(acc, l) ==
    IF l = <<>> THEN acc
    ELSE AppendSeq(IF Filtered(Head(l)) THEN Append(acc, Mapped(Head(l))) ELSE acc,
                   Tail(l))

\* the names alone are compared
SetsCompareNamesOnly(x, y) ==
    IF NameLess(x.Name, y.Name) THEN -1
    ELSE IF NameLess(y.Name, x.Name) THEN 1
    ELSE 0

\* the comparison function given to slices.SortFunc
SetsCompare(x, y) ==
    IF NameLess(x.Name, y.Name) THEN -1
    ELSE IF NameLess(y.Name, x.Name) THEN 1
    ELSE IF IsZero(x.Set) THEN 1
    ELSE IF IsZero(y.Set) THEN -1
    ELSE 0

\* slices.SortFunc on a slice of at most 12 elements: insertion sort, the
\* element at j moving left while it compares less than the one before it
RECURSIVE Sink(_, _)
Sink(s, j) ==
    IF j > 1 /\ SetsCompare(s[j], s[j - 1]) < 0
    THEN Sink([s EXCEPT ![j] = s[j - 1], ![j - 1] = s[j]], j - 1)
    ELSE s

RECURSIVE SortFrom(_, _)
SortFrom(s, k) == IF k > Len(s) THEN s ELSE SortFrom(Sink(s, k), k + 1)

SortFunc(s) == SortFrom(s, 2)

\* slices.CompactFunc with i.Name == j.Name: of a run of equal names the
\* first element stays
RECURSIVE CompactFrom(_, _, _)
CompactFrom(s, k, acc) ==
    IF k > Len(s) THEN acc
    ELSE CompactFrom(s, k + 1,
                     IF k > 1 /\ s[k].Name = s[k - 1].Name THEN acc
                     ELSE Append(acc, s[k]))

CompactFunc(s) == CompactFrom(s, 1, <<>>)

EnumRead ==
    /\ enumPc = "read"
    /\ found' = AppendSeq(<<>>, dirents)
    /\ enumPc' = "sort"
    /\ UNCHANGED <<mainVars, execVars, dirents>>

EnumSort ==
    /\ enumPc = "sort"
    /\ found' = SortFunc(found)
    /\ enumPc' = "compact"
    /\ UNCHANGED <<mainVars, execVars, dirents>>

EnumCompact ==
    /\ enumPc = "compact"
    /\ found' = CompactFunc(found)
    /\ enumPc' = "done"
    /\ UNCHANGED <<mainVars, execVars, dirents>>

EnumNext == EnumRead \/ EnumSort \/ EnumCompact

SpecEnum == EnumInit /\ [][EnumNext]_vars

\* ------------------------------------------------------------------ claims
Last(s) == s[Len(s)]

\* the indices in calls of the Exec calls of kind on the target name
CallsOf(kind, name) ==
    {k \in 1..Len(calls) : calls[k].kind = kind /\ calls[k].name = name}

\* the indices in calls of the Exec calls of kind
CallsOfKind(kind) == {k \in 1..Len(calls) : calls[k].kind = kind}

SetNames == {sets[k] : k \in 1..Len(sets)}

\* update mode: the planning loop has run
Planned == cmd = commandUpdate /\ (pc \in {"exec", "done"} \/ updates # <<>>)

\* the effective target version as the claims word it: the pinned version
\* when the mapping has an entry for the name, whatever its value
PresentPinOrLatest(name) ==
    IF name \in DOMAIN pinnedVersions
    THEN pinnedVersions[name]
    ELSE MapGet(latestVersions, name)

\* the effective target version with an empty pinned value counted as no pin
NonEmptyPinOrLatest(name) ==
    IF name \in DOMAIN pinnedVersions /\ pinnedVersions[name] # <<>>
    THEN pinnedVersions[name]
    ELSE MapGet(latestVersions, name)

\* the skip law of update mode for a given reading eff of the effective
\* target version: update is invoked at most once a target and only for a
\* target whose current version differs from eff; and a run that reaches its
\* end has invoked update for every target whose current version differs
SkipLaw(eff(_)) ==
    cmd = commandUpdate =>
        /\ \A k \in CallsOfKind(commandUpdate) :
              /\ MapGet(currentVersions, calls[k].name) # eff(calls[k].name)
              /\ CallsOf(commandUpdate, calls[k].name) = {k}
        /\ pc = "done" =>
              \A n \in SetNames :
                  MapGet(currentVersions, n) # eff(n)
                      => Cardinality(CallsOf(commandUpdate, n)) = 1

\* C1 as written: update mode never invokes update for a target whose current
\* version equals its effective target version (the pinned version if the
\* mapping has an entry, else the latest version), and invokes it exactly once
\* for every other target when nothing failed before
C1_SkipLawPresentPin == SkipLaw(PresentPinOrLatest)

\* C1 amended: the same skip law with the effective target version being the
\* pinned version if the mapping has a non-empty entry, else the latest version
C1_SkipLaw == SkipLaw(NonEmptyPinOrLatest)

\* update ran to its end with one target skipped and one updated, under a pin
C1_Witness ==
    /\ cmd = commandUpdate /\ pc = "done" /\ Len(sets) = 2
    /\ Cardinality(CallsOfKind(commandUpdate)) = 1
    /\ \E n \in SetNames :
          /\ CallsOf(commandUpdate, n) = {}
          /\ MapGet(pinnedVersions, n) # <<>>
          /\ MapGet(currentVersions, n) = pinnedVersions[n]
          /\ MapGet(latestVersions, n) # pinnedVersions[n]

\* C2 as written: every queued target's effective target version is the
\* pinned value whenever the mapping has an entry for the name, the empty
\* string included, and the latest version only when there is no entry
C2_PresentPinWins ==
    Planned => \A k \in 1..Len(updates) :
                   updates[k].tgt = PresentPinOrLatest(updates[k].name)

\* C2 amended: the planner's effective target version is the pinned value
\* whenever the mapping has a non-empty entry for the name, and the latest
\* version when there is no entry or the entry is the empty string; a target is
\* queued exactly when its current version differs from it
C2_NonEmptyPinWins ==
    Planned =>
        /\ \A k \in 1..Len(updates) :
              updates[k].tgt = NonEmptyPinOrLatest(updates[k].name)
        /\ \A n \in SetNames :
              (\E k \in 1..Len(updates) : updates[k].name = n)
                  <=> MapGet(currentVersions, n) # NonEmptyPinOrLatest(n)

\* a target is queued with its pin although checklatest found another version,
\* and another is queued with the latest version under an empty pin or none
C2_Witness ==
    /\ Planned
    /\ \E k \in 1..Len(updates) :
          /\ MapGet(pinnedVersions, updates[k].name) # <<>>
          /\ updates[k].tgt = pinnedVersions[updates[k].name]
          /\ MapGet(latestVersions, updates[k].name) # updates[k].tgt
          /\ MapGet(latestVersions, updates[k].name) # <<>>

\* C3: in update mode a failed ver or checklatest is the last Exec call of the
\* run, with or without the force flag: the run is fatal, no later ver or
\* checklatest and no update is executed
C3_GatherFailureFatal ==
    cmd = commandUpdate =>
        \A k \in CallsOfKind(commandVer) \cup CallsOfKind(commandChecklatest) :
            calls[k].err => k = Len(calls) /\ pc = "fatal" /\ updates = <<>>

\* under the force flag the first target's checklatest failed with a target left
C3_Witness ==
    /\ cmd = commandUpdate /\ f /\ pc = "fatal" /\ Len(sets) = 2
    /\ Len(calls) = 2 /\ calls[2].kind = commandChecklatest /\ calls[2].err
    /\ ~calls[2].ctxDone /\ ~cancelled

\* the update invocations follow the enumeration order, no target twice
UpdateCallsInOrder ==
    \A j, k \in CallsOfKind(commandUpdate) :
        j < k => \E p, q \in 1..Len(sets) :
                     p < q /\ sets[p] = calls[j].name /\ sets[q] = calls[k].name

\* C4 as written: the update invocations are a subsequence of the sorted
\* enumeration and each is passed the pin if the mapping has an entry for the
\* target, else the latest version
C4_OrderAndPresentPin ==
    cmd = commandUpdate =>
        /\ UpdateCallsInOrder
        /\ IsSortedByName(sets)
        /\ \A k \in CallsOfKind(commandUpdate) :
              calls[k].name \in SetNames
              /\ calls[k].ver = PresentPinOrLatest(calls[k].name)

\* C4 amended: the update invocations are a subsequence of the sorted
\* enumeration and each is passed the pin if the mapping has a non-empty entry
\* for the target, else the latest version
C4_OrderAndVersion ==
    cmd = commandUpdate =>
        /\ UpdateCallsInOrder
        /\ IsSortedByName(sets)
        /\ \A k \in CallsOfKind(commandUpdate) :
              calls[k].name \in SetNames
              /\ calls[k].ver = NonEmptyPinOrLatest(calls[k].name)

\* two targets were updated, one with its pin and one with its latest version
C4_Witness ==
    /\ cmd = commandUpdate /\ pc = "done"
    /\ Cardinality(CallsOfKind(commandUpdate)) = 2
    /\ \E j, k \in CallsOfKind(commandUpdate) :
          /\ j < k
          /\ calls[j].ver # calls[k].ver
          /\ calls[k].ver = MapGet(pinnedVersions, calls[k].name)
          /\ calls[j].ver = MapGet(latestVersions, calls[j].name)
          /\ calls[k].ver # MapGet(latestVersions, calls[k].name)

\* C5: in update mode a failed update is the last Exec call of the run, with
\* or without the force flag: the run is fatal, no update is invoked for a
\* target queued after it and nothing is invoked for the targets updated before
C5_UpdateFailureFatal ==
    cmd = commandUpdate =>
        \A k \in CallsOfKind(commandUpdate) :
            calls[k].err => k = Len(calls) /\ pc = "fatal"

\* under the force flag the first of two queued updates failed
C5_Witness ==
    /\ cmd = commandUpdate /\ f /\ pc = "fatal" /\ Len(updates) = 2
    /\ Last(calls).kind = commandUpdate /\ Last(calls).err
    /\ Last(calls).name = updates[1].name
    /\ ~cancelled

\* the place of the target name in the enumeration
IndexOf(name) == CHOOSE p \in 1..Len(sets) : sets[p] = name

\* main is about to process the target after name, or is done after the last
MovedPast(name) ==
    \/ pc = "run" /\ i = IndexOf(name) + 1 /\ step = LoopFirstStep
    \/ pc = "done" /\ IndexOf(name) = Len(sets)

\* C6: in install mode a target whose ver succeeds gets no checklatest and no
\* install, and the run goes on with the next target; checklatest and install
\* are invoked for a target only after its ver has failed
C6_InstalledSkipped ==
    cmd = commandInstall =>
        /\ \A k \in CallsOfKind(commandVer) :
              /\ CallsOf(commandVer, calls[k].name) = {k}
              /\ ~calls[k].err =>
                    /\ CallsOf(commandChecklatest, calls[k].name) = {}
                    /\ CallsOf(commandInstall, calls[k].name) = {}
                    /\ k = Len(calls) => MovedPast(calls[k].name)
                    /\ k < Len(calls) =>
                          /\ calls[k + 1].kind = commandVer
                          /\ calls[k + 1].name = sets[IndexOf(calls[k].name) + 1]
        /\ \A k \in CallsOfKind(commandChecklatest) \cup CallsOfKind(commandInstall) :
              \E j \in CallsOf(commandVer, calls[k].name) : j < k /\ calls[j].err

\* the first target was found installed, the second was not and was installed
C6_Witness ==
    /\ cmd = commandInstall /\ pc = "done" /\ Len(calls) = 4
    /\ calls[1].kind = commandVer /\ ~calls[1].err
    /\ calls[2].kind = commandVer /\ calls[2].err
    /\ calls[4].kind = commandInstall /\ ~calls[4].err

\* install mode, for a reading pin of the pinned version: when main is about
\* to call install, ver is the empty string if the checklatest call before
\* failed and its trimmed output if not; and the install call gets the pin if
\* it is not empty and ver if it is
InstallCallGets(pin(_)) ==
    cmd = commandInstall =>
        /\ (pc = "run" /\ step = commandInstall) =>
              /\ Last(calls).kind = commandChecklatest
              /\ Last(calls).name = sets[i]
              /\ ver = IF Last(calls).err THEN <<>> ELSE TrimSpace(out)
        /\ (calls # <<>> /\ Last(calls).kind = commandInstall) =>
              LET k == Len(calls)
              IN /\ calls[k - 1].kind = commandChecklatest
                 /\ calls[k - 1].name = calls[k].name
                 /\ calls[k - 1].err => ver = <<>>
                 /\ calls[k].ver = CmpOr(pin(calls[k].name), ver)

NoPin(name) == <<>>

PinOf(name) == MapGet(pinnedVersions, name)

\* C7 as written: in install mode, after a failed ver, install is invoked with
\* the empty string if checklatest failed and with the trimmed output of
\* checklatest if it succeeded, whatever the pinned-versions mapping
C7_InstallVersionFetched == InstallCallGets(NoPin)

\* C7 amended: in install mode, after a failed ver, install is invoked with
\* the target's pinned version if the mapping has a non-empty entry for it,
\* and otherwise with the empty string if checklatest failed and with the
\* trimmed output of checklatest if it succeeded
C7_InstallVersionPinned == InstallCallGets(PinOf)

\* install was invoked with the pin although checklatest had succeeded and
\* printed another version
C7_Witness ==
    /\ cmd = commandInstall /\ calls # <<>> /\ Last(calls).kind = commandInstall
    /\ ~calls[Len(calls) - 1].err
    /\ Last(calls).ver = MapGet(pinnedVersions, Last(calls).name)
    /\ ver \notin {<<>>, Last(calls).ver}

\* the first Exec calls of the iterations of the mode's loop
FirstCalls == SelectSeq(calls, LAMBDA c : c.kind = LoopFirstStep)

\* the targets are processed in enumeration order, none twice
ProcessedInOrder ==
    /\ Len(FirstCalls) <= Len(sets)
    /\ \A k \in 1..Len(FirstCalls) : FirstCalls[k].name = sets[k]

\* C8: in the install, ver and checklatest modes a failure of the mode's
\* operation for a target is, without the force flag, the last Exec call of the
\* run, which is fatal; with the force flag the run is never fatal once the
\* loop has begun, goes on with the next target and ends with every target of
\* the enumeration processed in order
C8_ForceContinues ==
    cmd \in {commandInstall, commandVer, commandChecklatest} =>
        /\ ProcessedInOrder
        /\ \A k \in CallsOfKind(cmd) :
              calls[k].err =>
                  IF f
                  THEN /\ k = Len(calls) => MovedPast(calls[k].name)
                       /\ k < Len(calls) =>
                             /\ calls[k + 1].kind = LoopFirstStep
                             /\ calls[k + 1].name = sets[IndexOf(calls[k].name) + 1]
                  ELSE k = Len(calls) /\ pc = "fatal"
        /\ f => /\ pc = "fatal" => calls = <<>>
                /\ pc = "done" => Len(FirstCalls) = Len(sets)

\* under the force flag ver failed for the first target and the second was
\* still queried
C8_Witness ==
    /\ cmd = commandVer /\ f /\ pc = "done" /\ ~cancelled
    /\ Len(calls) = 2 /\ calls[1].err /\ ~calls[2].err

\* C9: once the context is cancelled the call it arrived at returns an error,
\* every later Exec call fails, and no Exec call is made for a target other
\* than the one being processed when it arrived, in every mode and with or
\* without the force flag
C9_CancelStopsRun ==
    cancelled =>
        \A k \in 1..Len(calls) :
            k >= cancelAt =>
                /\ calls[k].err
                /\ calls[k].name = calls[cancelAt].name

HasStraySpace(s) == s # <<>> /\ (s[1] = Space \/ s[Len(s)] = Space)

\* C10: with a key or a value of the pinned-versions mapping that has leading
\* or trailing white space the run is fatal in every mode before any target is
\* processed: main never enters a loop and no Exec call is made
C10_StraySpaceFatal ==
    (\E k \in DOMAIN pinnedVersions :
        HasStraySpace(k) \/ HasStraySpace(pinnedVersions[k]))
        => pc \in {"load", "fatal"} /\ calls = <<>>

\* a pinned value with a trailing space stopped an update run over two targets
C10_Witness ==
    /\ pc = "fatal" /\ cmd = commandUpdate /\ Len(sets) = 2
    /\ \E k \in DOMAIN pinnedVersions :
          /\ ~HasStraySpace(k)
          /\ pinnedVersions[k] # <<>>
          /\ Last(pinnedVersions[k]) = Space

\* C16: update mode runs in two phases: ver and then checklatest are executed
\* once for each target in enumeration order, every one of these calls comes
\* before the planning and before the first update, and from the first update
\* on only update is executed
C16_TwoPhases ==
    cmd = commandUpdate =>
        /\ \A k \in 1..Len(calls) :
              IF k <= 2 * Len(sets)
              THEN /\ calls[k].name = sets[(k + 1) \div 2]
                   /\ calls[k].kind = IF k % 2 = 1 THEN commandVer
                                      ELSE commandChecklatest
              ELSE calls[k].kind = commandUpdate
        /\ Planned => Len(calls) >= 2 * Len(sets)

\* both targets were queried, and then both were updated
C16_Witness ==
    /\ cmd = commandUpdate /\ pc = "done" /\ Len(sets) = 2 /\ Len(calls) = 6
    /\ calls[5].kind = commandUpdate /\ calls[6].kind = commandUpdate

\* C18: ver mode invokes only ver and checklatest mode only checklatest,
\* neither ever install or update; install mode never invokes update and
\* update mode never invokes install, whatever fails, with or without the
\* force flag and whatever is pinned
C18_ModesKeepToTheirKinds ==
    \A k \in 1..Len(calls) :
        /\ cmd = commandVer => calls[k].kind = commandVer
        /\ cmd = commandChecklatest => calls[k].kind = commandChecklatest
        /\ cmd = commandInstall =>
              calls[k].kind \in {commandVer, commandChecklatest, commandInstall}
        /\ cmd = commandUpdate =>
              calls[k].kind \in {commandVer, commandChecklatest, commandUpdate}

\* a forced checklatest run over two targets, one pinned, went past a failure
C18_Witness ==
    /\ cmd = commandChecklatest /\ f /\ pc = "done" /\ Len(calls) = 2
    /\ calls[1].err /\ calls[1].name \in DOMAIN pinnedVersions

\* what Exec appended to the inherited environment in the k-th call
AddedEnv(k) == SubSeq(calls[k].env, Len(Environ) + 1, Len(calls[k].env))

AddsVer(k) == \E n \in 3..Len(AddedEnv(k)) : AddedEnv(k)[n].key = "VER"

\* C14: in every Exec call the child's environment is the inherited one
\* followed by OS and ARCH, and by a VER entry exactly when the version passed
\* is not empty, the entry then being that version; no ver or checklatest call
\* gets a VER added, nor does the install call of an unpinned target whose
\* checklatest failed
C14_ChildEnvironment ==
    \A k \in 1..Len(calls) :
        /\ SubSeq(calls[k].env, 1, Len(Environ)) = Environ
        /\ Len(AddedEnv(k)) \in {2, 3}
        /\ AddedEnv(k)[1] = [key |-> "OS", val |-> GOOS]
        /\ AddedEnv(k)[2] = [key |-> "ARCH", val |-> GOARCH]
        /\ AddsVer(k) <=> calls[k].ver # <<>>
        /\ AddsVer(k) => AddedEnv(k)[3] = [key |-> "VER", val |-> calls[k].ver]
        /\ calls[k].kind \in {commandVer, commandChecklatest} => ~AddsVer(k)
        /\ (/\ calls[k].kind = commandInstall
            /\ calls[k - 1].kind = commandChecklatest /\ calls[k - 1].err
            /\ calls[k].name \notin DOMAIN pinnedVersions) => ~AddsVer(k)

\* an install run that installed one unpinned target without a version after
\* its checklatest failed, and the other with the version it fetched
C14_Witness ==
    /\ cmd = commandInstall /\ pc = "done" /\ Len(calls) = 6
    /\ pinnedVersions = EmptyMap
    /\ calls[2].err /\ ~AddsVer(3)
    /\ ~calls[5].err /\ AddsVer(6) /\ calls[6].ver = <<"1">>

\* the map a ver or checklatest run prints at its end
PrintedMap == IF cmd = commandVer THEN currentVersions ELSE latestVersions

\* C17: at the end of a ver or checklatest run the printed map has one key
\* per enumerated target and no other, each mapped to what the target's child
\* wrote without the white space around it; a target whose operation failed
\* under the force flag is in the map too, with what was written before the
\* failure, the empty string if nothing was
C17_PrintedMap ==
    (cmd \in {commandVer, commandChecklatest} /\ pc = "done") =>
        /\ DOMAIN PrintedMap = SetNames
        /\ Len(calls) = Len(sets)
        /\ \A k \in 1..Len(calls) :
              /\ calls[k].name = sets[k]
              /\ PrintedMap[sets[k]] = outputs[sets[k]]
              /\ calls[k].err => f

\* a forced ver run over two targets: the first failed after writing 1, the
\* second failed having written nothing
C17_Witness ==
    /\ cmd = commandVer /\ f /\ pc = "done" /\ Len(sets) = 2
    /\ calls[1].err /\ currentVersions[sets[1]] = <<"1">>
    /\ calls[2].err /\ currentVersions[sets[2]] = <<>>

\* a placeholder literal occurs in s
ContainsPlaceholder(s) ==
    \E p \in 1..Len(s) : Hits(Dict(<<>>), SubSeq(s, p, Len(s))) # {}

HasDollar(s) == \E p \in 1..Len(s) : s[p] = "$"

\* every $ of s is the first character of a placeholder literal
DollarsBeginPlaceholders(s) ==
    \A p \in 1..Len(s) :
        s[p] = "$" => Hits(Dict(<<>>), SubSeq(s, p, Len(s))) # {}

\* C15 as stated: with a dictionary whose values contain no placeholder
\* literal, substituting twice gives what substituting once gives
C15_Idempotent ==
    (/\ frame.pc = "twice"
     /\ \A k \in DOMAIN Dict(frame.ver) : ~ContainsPlaceholder(Dict(frame.ver)[k]))
        => frame.args = frame.once

\* C15: substituting twice gives what substituting once gives, for every
\* vector whose tokens hold $ only as the first character of a placeholder
\* literal and every dictionary whose values hold no $, the empty version
\* included
C15_IdempotentWithoutStrayDollar ==
    (/\ frame.pc = "twice"
     /\ \A n \in 1..Len(frame.template) : DollarsBeginPlaceholders(frame.template[n])
     /\ \A k \in DOMAIN Dict(frame.ver) : ~HasDollar(Dict(frame.ver)[k]))
        => frame.args = frame.once

\* a vector of two tokens with three placeholders between them was
\* substituted twice with the empty version
C15_Witness ==
    /\ frame.pc = "twice" /\ frame.ver = <<>>
    /\ frame.template = <<PhVer \o PhArch, <<"x">> \o PhOs>>
    /\ frame.args = <<GOARCH, <<"x">> \o GOOS>>

\* the template of the operation the call is for
Template == Select(executor.Set, frame.kind)

\* C11: with a non-empty template for the operation, Exec stats no path
\* whatever scripts lie in the directory of the target, and the command it
\* builds and runs is the template after substitution
C11_TemplateNeverProbes ==
    (frame.pc \in {"select", "probe", "command", "returned"} /\ Len(Template) > 0) =>
        /\ frame.stats = <<>>
        /\ frame.pc # "probe"
        /\ frame.pc = "command" => frame.args = DictMap(Dict(frame.ver), Template)
        /\ frame.pc = "returned" =>
              /\ Len(frame.child) = 1
              /\ frame.child[1].argv = DictMap(Dict(frame.ver), Template)
              /\ frame.child[1].path = frame.child[1].argv[1]
              /\ frame.ret[1].err # "command not found"

\* the install template was run with version 1 although every script of the
\* operation lies in the directory of the target
C11_Witness ==
    /\ frame.pc = "returned" /\ frame.kind = commandInstall /\ frame.ver = <<"1">>
    /\ executor.Set.Install = <<<<"t">>, PhVer>>
    /\ disk = Candidates(executor.Name, frame.kind)
    /\ frame.child[1].argv = <<<<"t">>, <<"1">>>>

\* the paths script discovery tries, in its order
ProbeOrder ==
    [n \in 1..5 |->
        <<executor.dir, executor.Name,
          <<frame.kind, <<"", ".sh", ".exe", ".bat", ".ps1">>[n]>>>>]

\* the index of the first path of ProbeOrder that is on disk, 0 if none is
FirstOnDisk ==
    IF \E n \in 1..5 : ProbeOrder[n] \in disk
    THEN CHOOSE n \in 1..5 :
            ProbeOrder[n] \in disk /\ \A m \in 1..(n - 1) : ProbeOrder[m] \notin disk
    ELSE 0

\* C12: with an empty template for the operation, Exec stats
\* <dir>/<target>/<kind><ext> for ext "", .sh, .exe, .bat, .ps1 in this order
\* and stops at the first path that exists, which alone becomes the argument
\* vector; when none exists it returns "command not found" without a child
C12_ScriptDiscovery ==
    (frame.pc \in {"probe", "command", "returned"} /\ Len(Template) = 0) =>
        /\ Len(frame.stats) <= 5
        /\ \A n \in 1..Len(frame.stats) : frame.stats[n] = ProbeOrder[n]
        /\ frame.pc = "probe" =>
              /\ frame.args = <<>>
              /\ \A n \in 1..Len(frame.stats) : frame.stats[n] \notin disk
        /\ frame.pc = "command" =>
              /\ FirstOnDisk # 0
              /\ Len(frame.stats) = FirstOnDisk
              /\ frame.args = <<ProbeOrder[FirstOnDisk]>>
        /\ frame.pc = "returned" =>
              IF FirstOnDisk = 0
              THEN /\ Len(frame.stats) = 5
                   /\ frame.child = <<>>
                   /\ frame.ret = <<[out |-> <<>>, err |-> "command not found"]>>
              ELSE /\ Len(frame.stats) = FirstOnDisk
                   /\ Len(frame.child) = 1
                   /\ frame.child[1].path = ProbeOrder[FirstOnDisk]
                   /\ frame.child[1].argv = <<ProbeOrder[FirstOnDisk]>>

\* update.sh and update.bat exist, update does not: update.sh was run after
\* two stats
C12_Witness ==
    /\ frame.pc = "returned" /\ frame.kind = commandUpdate
    /\ executor.Set.Update = <<>>
    /\ disk = {ProbeOrder[2], ProbeOrder[4]}
    /\ Len(frame.stats) = 2
    /\ frame.child[1].argv = <<ProbeOrder[2]>>

\* no script of the operation exists: command not found after five stats
C12_WitnessNotFound ==
    /\ frame.pc = "returned" /\ Len(Template) = 0 /\ disk = {}
    /\ Len(frame.stats) = 5 /\ frame.child = <<>>

\* the entries of the listing that are commandSet files, and its directories
JsonFiles ==
    {dirents[k] : k \in {n \in 1..Len(dirents) :
        /\ ~dirents[n].dir
        /\ HasSuffix(dirents[n].name, DotJson)
        /\ dirents[n].name # pinnedVersionsFileName}}

Directories == {dirents[k] : k \in {n \in 1..Len(dirents) : dirents[n].dir}}

\* C13: the enumerated targets are in ascending order of name with one entry
\* a name, the names being those of the commandSet files and of the
\* directories; where n.json decodes to a non-zero commandSet and the
\* directory n exists too, the entry of n carries the commandSet of the file,
\* in whatever order the listing returned the two
C13_SortedOnePerName ==
    enumPc = "done" =>
        /\ \A p, q \in 1..Len(found) : p < q => NameLess(found[p].Name, found[q].Name)
        /\ {found[k].Name : k \in 1..Len(found)}
              = {SubSeq(fi.name, 1, Len(fi.name) - 5) : fi \in JsonFiles}
                \cup {fi.name : fi \in Directories}
        /\ \A fi \in JsonFiles, d \in Directories :
              (fi.name = d.name \o DotJson /\ fi.set # ZeroSet) =>
                  \E k \in 1..Len(found) :
                      found[k] = [Name |-> d.name, Set |-> fi.set]

\* the directory a was listed before a.json, which defines ver, and b.json
\* before a: the list is a (from the file), b
C13_Witness ==
    /\ enumPc = "done"
    /\ Len(dirents) = 4
    /\ dirents[1] = [name |-> <<"a">>, dir |-> TRUE, set |-> ZeroSet]
    /\ dirents[2] = [name |-> pinnedVersionsFileName, dir |-> FALSE, set |-> ZeroSet]
    /\ dirents[3] = [name |-> <<"b">> \o DotJson, dir |-> FALSE, set |-> ZeroSet]
    /\ dirents[4] = [name |-> <<"a">> \o DotJson, dir |-> FALSE, set |-> VerOnlySet]
    /\ found = <<[Name |-> <<"a">>, Set |-> VerOnlySet], [Name |-> <<"b">>, Set |-> ZeroSet]>>

====
